---- MODULE Spec2Model ----
(***************************************************************************)
(* A model of twoliter's image locking and extraction,                     *)
(* twoliter/src/project/lock/image.rs: the LockedImage record and its      *)
(* comparison traits, the decoding of EncodedKitMetadata, and the two      *)
(* operations of ImageResolver, resolve and extract, as state machines     *)
(* whose steps are the await points of the code.                           *)
(***************************************************************************)
EXTENDS Integers, Sequences, FiniteSets, TLC

VARIABLES
    \* two LockedImage values and the results of comparing them
    lhs, rhs, eq_result, cmp_result,
    \* the registry: the manifest-list bytes served for each image uri
    registry, pushes,
    \* ImageResolver (resolve): the resolver's fields and the locals of one call
    image, skip_metadata_retrieval, pc, manifest_bytes, manifest_list, digest_bytes,
    locked_image, in_flight, consumed, canonical_metadata, tool_calls, result,
    \* the outcome of an earlier resolve call, made by another resolver
    previous,
    \* EncodedKitMetadata values and what rendering and decoding them gave
    encoded, debug_result, try_debug_result, try_from_result,
    \* ImageResolver (extract): per resolver, the locals of the running call
    ximage, xarch, xpc, xcalls, xmanifest, xoutcome, xlog,
    \* the disk under the destination path
    disk

lockedVars == <<lhs, rhs, eq_result, cmp_result>>
registryVars == <<registry, pushes>>
resolveVars == <<image, skip_metadata_retrieval, pc, manifest_bytes, manifest_list,
                 digest_bytes,
                 locked_image, in_flight, consumed, canonical_metadata, tool_calls, result,
                 previous>>
debugVars == <<encoded, debug_result, try_debug_result, try_from_result>>
extractVars == <<ximage, xarch, xpc, xcalls, xmanifest, xoutcome, xlog>>
diskVars == <<disk>>
vars == <<lockedVars, debugVars, registryVars, resolveVars, extractVars, diskVars>>

\* Option<T>: None is the empty sequence, Some(x) the one-element sequence.
None == <<>>
Some(x) == <<x>>
Unwrap(o) == o[1]

(***************************************************************************)
(* LockedImage: #[derive(Eq, Ord, PartialOrd)] with a hand-written         *)
(* PartialEq.  Field values are drawn from 1..MaxField, ordered as the     *)
(* integers are (the order of String, ValidIdentifier and Version).        *)
(***************************************************************************)
MaxField == 2

FieldValues == 1..MaxField

LockedImages ==
    [name : FieldValues, version : FieldValues, vendor : FieldValues,
     source : FieldValues, digest : FieldValues]

\* A derived, structural equality: every field takes part.
LockedImageEqStructural(a, b) == a = b

\* impl PartialEq for LockedImage
LockedImageEq(a, b) == a.source = b.source /\ a.digest = b.digest

\* Ordering of one field.
FieldCmp(x, y) == IF x < y THEN "Less" ELSE IF x > y THEN "Greater" ELSE "Equal"

\* Lexicographic comparison of two equally long sequences of fields.
RECURSIVE LexCmp(_, _)
LexCmp(s, t) ==
    IF s = <<>> THEN "Equal"
    ELSE IF FieldCmp(Head(s), Head(t)) # "Equal" THEN FieldCmp(Head(s), Head(t))
    ELSE LexCmp(Tail(s), Tail(t))

\* #[derive(Ord, PartialOrd)]: the fields in declaration order.
LockedImageCmp(a, b) ==
    LexCmp(<<a.name, a.version, a.vendor, a.source, a.digest>>,
           <<b.name, b.version, b.vendor, b.source, b.digest>>)

\* a == b
CompareEq ==
    /\ eq_result = None
    /\ eq_result' = Some(LockedImageEq(lhs, rhs))
    /\ UNCHANGED <<lhs, rhs, cmp_result>>
    /\ UNCHANGED <<debugVars, registryVars, resolveVars, extractVars, diskVars>>

\* a.cmp(&b)
CompareCmp ==
    /\ cmp_result = None
    /\ cmp_result' = Some(LockedImageCmp(lhs, rhs))
    /\ UNCHANGED <<lhs, rhs, eq_result>>
    /\ UNCHANGED <<debugVars, registryVars, resolveVars, extractVars, diskVars>>

(***************************************************************************)
(* Results.  An anyhow error is its chain of context messages, outermost   *)
(* first.                                                                  *)
(***************************************************************************)
Ok(v) == [ok |-> TRUE, val |-> Some(v), err |-> <<>>]
Err(chain) == [ok |-> FALSE, val |-> None, err |-> chain]

ToolError(op) == <<"image tool error", op>>

(***************************************************************************)
(* The content of the registry.  A manifest list is its bytes: whether     *)
(* they deserialize, and the entries they deserialize to.  An image        *)
(* configuration is addressed by the digest of its manifest entry.         *)
(***************************************************************************)
MaxManifests == 3

KitLabel == "dev.bottlerocket.kit.v1"

ConfigDigests == {"dX1", "dX2", "dY", "dNotBase64", "dNotJson", "dNoLabel"}

\* image_tool.get_config(uri).labels, a map from label keys to values.
ConfigLabels(digest) ==
    CASE digest = "dX1" -> [k \in {KitLabel} |-> "eX1"]
      [] digest = "dX2" -> [k \in {KitLabel} |-> "eX2"]
      [] digest = "dY" -> [k \in {KitLabel} |-> "eY"]
      [] digest = "dNotBase64" -> [k \in {KitLabel} |-> "eNotBase64"]
      [] digest = "dNotJson" -> [k \in {KitLabel} |-> "eNotJson"]
      [] OTHER -> [k \in {"org.opencontainers.image.title"} |-> "sdk"]

\* The platform of the i-th entry of a multi-architecture list.
PositionArch(i) == IF i % 2 = 1 THEN "Amd64" ELSE "Arm64"

SeqsUpTo(S, n) == UNION {[1..k -> S] : k \in 0..n}

EntriesOf(ds) ==
    [i \in 1..Len(ds) |-> [digest |-> ds[i], platform |-> Some(PositionArch(i))]]

InvalidBytes == [valid |-> FALSE, manifests |-> <<>>]

ResolveBytes ==
    {[valid |-> TRUE, manifests |-> EntriesOf(ds)] :
        ds \in SeqsUpTo(ConfigDigests, MaxManifests)} \cup {InvalidBytes}

\* What a push to the registry may replace a manifest list with.
PushBytes ==
    {[valid |-> TRUE, manifests |-> EntriesOf(ds)] : ds \in SeqsUpTo({"dX1", "dY"}, 1)}
        \cup {InvalidBytes}

\* serde_json::from_slice::<ManifestListView>(manifest_bytes)
ParseManifestList(bytes) == IF bytes.valid THEN Some(bytes.manifests) ELSE None

(***************************************************************************)
(* EncodedKitMetadata and ImageMetadata.                                   *)
(***************************************************************************)
\* base64::engine::general_purpose::STANDARD.decode
Base64Decode(s) ==
    CASE s = "eX1" -> Some("jX1")
      [] s = "eX2" -> Some("jX2")
      [] s = "eY" -> Some("jY")
      [] s = "eNotJson" -> Some("jNotMetadata")
      [] OTHER -> None

\* serde_json::from_slice::<ImageMetadata>: jX1 and jX2 are two JSON texts of
\* the same ImageMetadata X.
JsonParse(bytes) ==
    CASE bytes = "jX1" -> Some("X")
      [] bytes = "jX2" -> Some("X")
      [] bytes = "jY" -> Some("Y")
      [] OTHER -> None

\* impl TryFrom<EncodedKitMetadata> for ImageMetadata
ImageMetadataTryFrom(value) ==
    IF Base64Decode(value) = None
    THEN Err(<<"failed to decode kit metadata as base64">>)
    ELSE IF JsonParse(Unwrap(Base64Decode(value))) = None
    THEN Err(<<"failed to parse kit metadata json">>)
    ELSE Ok(Unwrap(JsonParse(Unwrap(Base64Decode(value)))))

\* Equality of the decoded values of two encodings (decode-then-compare).
EncodedKitMetadataEqDecoded(a, b) ==
    /\ ImageMetadataTryFrom(a).ok
    /\ ImageMetadataTryFrom(b).ok
    /\ ImageMetadataTryFrom(a).val = ImageMetadataTryFrom(b).val

\* A comparison that finds any two encodings equal.
EncodedKitMetadataEqAny(a, b) == TRUE

\* #[derive(PartialEq)] struct EncodedKitMetadata(String): the raw strings.
EncodedKitMetadataEq(a, b) == a = b

\* A lookup under a key other than the kit label's.
LabelGetWrongKey(labels, key) ==
    IF "org.opencontainers.image.title" \in DOMAIN labels
    THEN Some(labels["org.opencontainers.image.title"]) ELSE None

\* config.labels.get(key)
LabelGet(labels, key) == IF key \in DOMAIN labels THEN Some(labels[key]) ELSE None

\* EncodedKitMetadata::try_from_image, given whether get_config succeeded.
TryFromImage(image_uri, tool_ok) ==
    IF ~tool_ok THEN Err(ToolError("get_config"))
    ELSE IF LabelGet(ConfigLabels(image_uri.digest), KitLabel) = None
    THEN Err(<<"no metadata stored on image, this image appears to not be a kit">>)
    ELSE Ok(Unwrap(LabelGet(ConfigLabels(image_uri.digest), KitLabel)))

(***************************************************************************)
(* The Debug rendering of EncodedKitMetadata (lines 114-137), as used when *)
(* a mismatch is logged (lines 227-231): the two values are rendered with  *)
(* ?canonical_metadata and ?kit_metadata.                                  *)
(***************************************************************************)
Rendered == {"canonical_metadata", "kit_metadata"}

\* Strings an EncodedKitMetadata may hold: the labels of the registry, the
\* junk string of the unit test, a string with a line break in it.
EncodedStrings ==
    {"eX1", "eX2", "eY", "eNotJson", "eNotBase64", "abcdefghijklmnophello", "eNot\nBase64"}

\* format!("{:?}", metadata), the derived Debug of ImageMetadata
DebugFormat(metadata) == <<"ImageMetadata", metadata>>

\* self.0.replace("\n", "\\n")
ReplaceNewlines(s) == IF s = "eNot\nBase64" THEN "eNot\\nBase64" ELSE s

\* A rendering that shows whatever base64-decodes as decoded.
DebugImageMetadataBase64Only(value) ==
    IF Base64Decode(value) = None THEN None
    ELSE Some(<<"<ImageMetadata(decoded) [",
                DebugFormat(JsonParse(Unwrap(Base64Decode(value)))), "]>">>)

\* EncodedKitMetadata::debug_image_metadata
DebugImageMetadata(value) ==
    IF Base64Decode(value) = None THEN None
    ELSE IF JsonParse(Unwrap(Base64Decode(value))) = None THEN None
    ELSE Some(<<"<ImageMetadata(decoded) [",
                DebugFormat(Unwrap(JsonParse(Unwrap(Base64Decode(value))))), "]>">>)

\* EncodedKitMetadata::try_debug_image_metadata
TryDebugImageMetadata(value) ==
    IF DebugImageMetadata(value) # None
    THEN Unwrap(DebugImageMetadata(value))
    ELSE <<"<ImageMetadata(encoded) [", ReplaceNewlines(value), "]>">>

\* value.debug_image_metadata()
CallDebugImageMetadata(v) ==
    /\ debug_result[v] = None
    /\ debug_result' = [debug_result EXCEPT ![v] = Some(DebugImageMetadata(encoded[v]))]
    /\ UNCHANGED <<encoded, try_debug_result, try_from_result>>
    /\ UNCHANGED <<lockedVars, registryVars, resolveVars, extractVars, diskVars>>

\* value.try_debug_image_metadata(), what Debug::fmt writes
CallTryDebugImageMetadata(v) ==
    /\ try_debug_result[v] = None
    /\ try_debug_result' = [try_debug_result EXCEPT
                              ![v] = Some(TryDebugImageMetadata(encoded[v]))]
    /\ UNCHANGED <<encoded, debug_result, try_from_result>>
    /\ UNCHANGED <<lockedVars, registryVars, resolveVars, extractVars, diskVars>>

\* ImageMetadata::try_from(value)
CallTryFrom(v) ==
    /\ try_from_result[v] = None
    /\ try_from_result' = [try_from_result EXCEPT
                             ![v] = Some(ImageMetadataTryFrom(encoded[v]))]
    /\ UNCHANGED <<encoded, debug_result, try_debug_result>>
    /\ UNCHANGED <<lockedVars, registryVars, resolveVars, extractVars, diskVars>>

(***************************************************************************)
(* ImageResolver::resolve.  One action per await point of the call.        *)
(***************************************************************************)
MaxPushes == 1

\* The project images a resolver is built from: the registry part of the
\* project image uri may be absent.
ResolveImages ==
    {[name |-> "core-kit", version |-> "2.0.0", vendor |-> "bottlerocket",
      source |-> "public.ecr.aws/bottlerocket/core-kit",
      uri |-> [registry |-> r, repo |-> "core-kit", tag |-> "v2.0.0"]] :
        r \in {None, Some("public.ecr.aws")}}

\* The project images of a second kit, from another vendor and registry.
OtherImages ==
    {[name |-> "extra-kit", version |-> "1.0.0", vendor |-> "acme",
      source |-> "mirror.example/acme/extra-kit",
      uri |-> [registry |-> Some("mirror.example"), repo |-> "extra-kit", tag |-> "v1.0.0"]]}

ProjectImages == ResolveImages \cup OtherImages

\* A failure that leaves the call where it is, to try the step again.
ResolveRetry(chain) == UNCHANGED <<pc, result>>

\* The call returns Err(chain): no LockedImage and no metadata leave it.
ResolveFail(chain) ==
    /\ result' = Some([ok |-> FALSE, locked |-> None, metadata |-> None, error |-> chain])
    /\ pc' = "done"

\* The call returns Ok((locked, metadata)).
ResolveReturn(locked, metadata) ==
    /\ result' = Some([ok |-> TRUE, locked |-> Some(locked), metadata |-> metadata,
                       error |-> <<>>])
    /\ pc' = "done"

Called(op, arg, ok) == Append(tool_calls, [op |-> op, arg |-> arg, ok |-> ok])

\* A uri whose registry falls back to a default host when it names none.
UriRegistryDefaulted(uri) == IF uri.registry = None THEN Some("docker.io") ELSE uri.registry

\* uri.registry (lines 190-192 and 278)
UriRegistry(uri) == uri.registry

\* format!("{registry}/{repo}@{}", manifest.digest)
EntryUri(manifest) ==
    [registry |-> Unwrap(UriRegistry(image.uri)), repo |-> image.uri.repo,
     digest |-> manifest.digest]

\* lines 188-193: get_manifest (fetch and deserialize), then the registry of the uri
ResolveGetManifest ==
    /\ pc = "get_manifest"
    /\ \E tool_ok \in BOOLEAN :
        /\ tool_calls' = Called("get_manifest", image.uri, tool_ok)
        /\ IF ~tool_ok
           THEN ResolveFail(ToolError("get_manifest"))
                /\ UNCHANGED <<manifest_bytes, manifest_list>>
           ELSE IF ParseManifestList(registry[image.uri]) = None
           THEN ResolveFail(<<"failed to deserialize manifest list">>)
                /\ manifest_bytes' = Some(registry[image.uri])
                /\ UNCHANGED manifest_list
           ELSE /\ manifest_bytes' = Some(registry[image.uri])
                /\ manifest_list' = Unwrap(ParseManifestList(registry[image.uri]))
                /\ IF UriRegistry(image.uri) = None
                   THEN ResolveFail(<<"no registry found for image">>)
                   ELSE pc' = "calculate_digest" /\ UNCHANGED result
    /\ UNCHANGED <<image, skip_metadata_retrieval, digest_bytes, locked_image, in_flight,
                   consumed, canonical_metadata, previous>>
    /\ UNCHANGED <<lockedVars, debugVars, registryVars, extractVars, diskVars>>

\* A digest that also takes in the uri the bytes were fetched from.
Sha256Base64OfUriAndBytes(bytes) == [sha256 |-> <<image.uri, bytes>>]

\* lines 166-167: base64(sha256(manifest_bytes)), one digest string per byte string
Sha256Base64(bytes) == [sha256 |-> bytes]

\* The record resolve builds (lines 195-202), the skip flag ignored.
LockedImageOf(bytes) ==
    [name |-> image.name, version |-> image.version, vendor |-> image.vendor,
     source |-> image.source, digest |-> Sha256Base64(bytes)]

\* A resolver that never skips.
MetadataSkippedNever == FALSE

\* line 204: if self.skip_metadata_retrieval
MetadataSkipped == skip_metadata_retrieval

\* lines 195-206: calculate_digest fetches the manifest again and hashes it; the
\* LockedImage is built; the skip flag ends the call here
ResolveCalculateDigest ==
    /\ pc = "calculate_digest"
    /\ \E tool_ok \in BOOLEAN :
        /\ tool_calls' = Called("get_manifest", image.uri, tool_ok)
        /\ IF ~tool_ok
           THEN ResolveFail(ToolError("get_manifest"))
                /\ UNCHANGED <<digest_bytes, locked_image>>
           ELSE /\ digest_bytes' = Some(registry[image.uri])
                /\ locked_image' = Some(LockedImageOf(registry[image.uri]))
                /\ IF MetadataSkipped
                   THEN ResolveReturn(LockedImageOf(registry[image.uri]), None)
                   ELSE pc' = "canonical" /\ UNCHANGED result
    /\ UNCHANGED <<image, skip_metadata_retrieval, manifest_bytes, manifest_list, in_flight,
                   consumed, canonical_metadata, previous>>
    /\ UNCHANGED <<lockedVars, debugVars, registryVars, extractVars, diskVars>>

\* stream::iter(manifest_list.manifests): the manifests the iterator has handed
\* out, those whose fetch has been taken and those whose fetch is pending
StreamPosition == consumed + Cardinality(in_flight)

\* A stream that starts the fetch of the next manifest whatever is pending.
StreamIdleAlways == TRUE

\* .then(..): the stream holds at most one pending future, and asks the
\* iterator for the next manifest only when it holds none
StreamIdle == in_flight = {}

\* A stream that ends after its first item.
StreamExhaustedAfterFirst == consumed >= 1

\* embedded_kit_metadata.try_next() yields None: every manifest has been taken
StreamExhausted == consumed = Len(manifest_list)

\* lines 209-216, polled by try_next (lines 220 and 225): the stream takes the
\* next manifest from the iterator and issues get_config for it
ResolveTryNext ==
    /\ pc \in {"canonical", "validate"}
    /\ StreamIdle
    /\ StreamPosition < Len(manifest_list)
    /\ in_flight' = in_flight \cup {StreamPosition + 1}
    /\ UNCHANGED <<image, skip_metadata_retrieval, pc, manifest_bytes, manifest_list,
                   digest_bytes, locked_image, consumed, canonical_metadata, tool_calls,
                   result, previous>>
    /\ UNCHANGED <<lockedVars, debugVars, registryVars, extractVars, diskVars>>

\* A stream without items taken for a kit without metadata.
CanonicalMissingTolerated == ResolveReturn(Unwrap(locked_image), None)

\* line 222: .context(format!("could not find metadata for kit {}", uri))?
CanonicalMissing == ResolveFail(<<"could not find metadata for kit">>)

\* lines 219-222: the first item of the stream becomes the canonical metadata;
\* a stream without items is an error
ResolveCanonical ==
    /\ pc = "canonical"
    /\ IF in_flight = {}
       THEN /\ StreamExhausted
            /\ CanonicalMissing
            /\ UNCHANGED <<tool_calls, in_flight, consumed, canonical_metadata>>
       ELSE \E i \in in_flight, tool_ok \in BOOLEAN :
            LET fetched == TryFromImage(EntryUri(manifest_list[i]), tool_ok) IN
            /\ tool_calls' = Called("get_config", EntryUri(manifest_list[i]), tool_ok)
            /\ in_flight' = in_flight \ {i}
            /\ IF ~fetched.ok
               THEN ResolveFail(fetched.err) /\ UNCHANGED <<consumed, canonical_metadata>>
               ELSE /\ canonical_metadata' = fetched.val
                    /\ consumed' = consumed + 1
                    /\ pc' = "validate"
                    /\ UNCHANGED result
    /\ UNCHANGED <<image, skip_metadata_retrieval, manifest_bytes, manifest_list,
                   digest_bytes, locked_image, previous>>
    /\ UNCHANGED <<lockedVars, debugVars, registryVars, extractVars, diskVars>>

\* lines 225-234: one turn of the loop, the next item of the stream against the
\* canonical metadata
ResolveValidate ==
    /\ pc = "validate"
    /\ \E i \in in_flight, tool_ok \in BOOLEAN :
        LET fetched == TryFromImage(EntryUri(manifest_list[i]), tool_ok) IN
        /\ tool_calls' = Called("get_config", EntryUri(manifest_list[i]), tool_ok)
        /\ in_flight' = in_flight \ {i}
        /\ IF ~fetched.ok
           THEN ResolveFail(fetched.err) /\ UNCHANGED consumed
           ELSE IF ~EncodedKitMetadataEq(Unwrap(fetched.val), Unwrap(canonical_metadata))
           THEN /\ ResolveFail(<<"Metadata does not match between images in manifest list">>)
                /\ consumed' = consumed + 1
           ELSE consumed' = consumed + 1 /\ UNCHANGED <<pc, result>>
    /\ UNCHANGED <<image, skip_metadata_retrieval, manifest_bytes, manifest_list,
                   digest_bytes, locked_image, canonical_metadata, previous>>
    /\ UNCHANGED <<lockedVars, debugVars, registryVars, extractVars, diskVars>>

\* A decoding that is due as soon as the canonical metadata is there.
DecodeDueAtOnce == canonical_metadata # None

\* lines 225-235: the decoding follows the loop, which ends when try_next
\* yields None
DecodeDue == in_flight = {} /\ StreamExhausted

\* lines 235-239: the stream is exhausted; the canonical metadata is decoded
ResolveDecode ==
    /\ pc = "validate"
    /\ DecodeDue
    /\ LET decoded == ImageMetadataTryFrom(Unwrap(canonical_metadata)) IN
       IF ~decoded.ok
       THEN ResolveFail(<<"Failed to decode and parse kit metadata">> \o decoded.err)
       ELSE ResolveReturn(Unwrap(locked_image), decoded.val)
    /\ UNCHANGED <<image, skip_metadata_retrieval, manifest_bytes, manifest_list,
                   digest_bytes, locked_image, in_flight, consumed, canonical_metadata,
                   tool_calls, previous>>
    /\ UNCHANGED <<lockedVars, debugVars, registryVars, extractVars, diskVars>>

\* The call has returned; a second resolver, built from a project image of its
\* own with or without skip_metadata_retrieval, calls resolve.  What the first
\* call fetched for its digest and what it returned is kept.
ResolveAgain ==
    /\ pc = "done"
    /\ previous = None
    /\ previous' = Some([image |-> image,
                         skip_metadata_retrieval |-> skip_metadata_retrieval,
                         digest_bytes |-> digest_bytes, locked_image |-> locked_image,
                         result |-> Unwrap(result)])
    /\ image' \in {img \in ProjectImages : img.uri \in DOMAIN registry}
    /\ skip_metadata_retrieval' \in BOOLEAN
    /\ pc' = "get_manifest"
    /\ manifest_bytes' = None
    /\ manifest_list' = <<>>
    /\ digest_bytes' = None
    /\ locked_image' = None
    /\ in_flight' = {}
    /\ consumed' = 0
    /\ canonical_metadata' = None
    /\ tool_calls' = <<>>
    /\ result' = None
    /\ UNCHANGED <<lockedVars, debugVars, registryVars, extractVars, diskVars>>

(***************************************************************************)
(* The registry, seen through the image tool, may be pushed to while a     *)
(* call is in progress: the manifest list behind a uri is replaced.        *)
(***************************************************************************)
RegistryPush ==
    /\ pushes < MaxPushes
    /\ pc \notin {"idle", "done"} \/ \E p \in DOMAIN xpc : xpc[p] \notin {"idle", "done"}
    /\ \E u \in DOMAIN registry, bytes \in PushBytes :
        /\ bytes # registry[u]
        /\ registry' = [registry EXCEPT ![u] = bytes]
    /\ pushes' = pushes + 1
    /\ UNCHANGED <<lockedVars, debugVars, resolveVars, extractVars, diskVars>>

(***************************************************************************)
(* The disk under the destination path: the directories that exist, the    *)
(* archives in the cache directory, and what each target directory holds   *)
(* (the unpacked layers and the digest file).                              *)
(***************************************************************************)
Dest == "dest"

EmptyDir == [layers |-> None, marker |-> None]

\* The target path without the vendor directory.
TargetPathNoVendor(img, arch) == <<Dest, img.name, arch>>

\* path.join(format!("{}/{}/{arch}", vendor_name, name))
TargetPath(img, arch) == <<Dest, img.vendor, img.name, arch>>

\* path.join("cache")
CachePath == <<Dest, "cache">>

\* A creation that empties a directory that exists already.
CreateDirAllFresh(d, path) ==
    [d EXCEPT !.dirs = @ \cup {path},
              !.files = [q \in DOMAIN @ |-> IF q = path THEN EmptyDir ELSE @[q]]]

\* create_dir_all(path): a directory that exists is left as it is
CreateDirAll(d, path) == [d EXCEPT !.dirs = @ \cup {path}]

\* DockerArchitecture::try_from(arch)
DockerArchitectureTryFrom(arch) ==
    CASE arch = "amd64" -> Ok("Amd64")
      [] arch = "arm64" -> Ok("Arm64")
      [] OTHER -> Err(<<"invalid architecture">>)

\* A selection that takes the first entry of the list, whatever its platform.
FindArchitectureFirst(manifests, docker_arch, i) ==
    IF manifests = <<>> THEN [kind |-> "none", manifest |-> None]
    ELSE [kind |-> "found", manifest |-> Some(manifests[1])]

\* manifests.iter().find(|x| x.platform.as_ref().unwrap().architecture == docker_arch):
\* the first match, none, or the panic of unwrap() on an entry without platform
RECURSIVE FindArchitecture(_, _, _)
FindArchitecture(manifests, docker_arch, i) ==
    IF i > Len(manifests) THEN [kind |-> "none", manifest |-> None]
    ELSE IF manifests[i].platform = None THEN [kind |-> "panic", manifest |-> None]
    ELSE IF Unwrap(manifests[i].platform) = docker_arch
    THEN [kind |-> "found", manifest |-> Some(manifests[i])]
    ELSE FindArchitecture(manifests, docker_arch, i + 1)

(***************************************************************************)
(* ImageResolver::extract, per resolver p.  xlog[p] records the archive    *)
(* operations the resolver's calls invoke and the network pulls and the    *)
(* unpacks they perform; xoutcome[p] records how each call ended and the   *)
(* disk it left.                                                           *)
(***************************************************************************)
MaxCalls == 2

Resolvers == {1, 2}

CallNo(p) == Len(xoutcome[p]) + 1

\* bytes: the manifest-list bytes a get_manifest returned, None for the other events
Event(p, op, digest, path, bytes) ==
    [call |-> CallNo(p), op |-> op, digest |-> digest, path |-> path, bytes |-> bytes]

\* The call of p ends: Ok(()), Err(chain) or a panic.
ExtractEnd(p, kind, chain, d) ==
    /\ xoutcome' = [xoutcome EXCEPT ![p] = Append(@, [kind |-> kind, error |-> chain, disk |-> d])]
    /\ xpc' = [xpc EXCEPT ![p] = "done"]

\* lines 255-262: the target and the cache directory are created
ExtractCreateDirs(p) ==
    /\ xpc[p] = "create_dirs"
    /\ \E failed \in {"target", "cache", "none"} :
        LET withTarget == CreateDirAll(disk, TargetPath(ximage[p], xarch[p]))
            withBoth == CreateDirAll(withTarget, CachePath) IN
        CASE failed = "target" ->
               /\ ExtractEnd(p, "err", <<"failed to create directory">>, disk)
               /\ UNCHANGED disk
          [] failed = "cache" ->
               /\ disk' = withTarget
               /\ ExtractEnd(p, "err", <<"failed to create directory">>, withTarget)
          [] OTHER ->
               /\ disk' = withBoth
               /\ xpc' = [xpc EXCEPT ![p] = "get_manifest"]
               /\ UNCHANGED xoutcome
    /\ UNCHANGED <<ximage, xarch, xcalls, xmanifest, xlog>>
    /\ UNCHANGED <<lockedVars, debugVars, registryVars, resolveVars>>

\* lines 264-284: the manifest list is fetched, the entry of the requested
\* architecture selected, the registry of the uri read, the archive addressed
\* (OCIArchive::new only records its arguments)
ExtractGetManifest(p) ==
    /\ xpc[p] = "get_manifest"
    /\ \E tool_ok \in BOOLEAN :
        LET parsed == ParseManifestList(registry[ximage[p].uri])
            docker_arch == DockerArchitectureTryFrom(xarch[p])
            found == FindArchitecture(Unwrap(parsed), Unwrap(docker_arch.val), 1) IN
        /\ IF ~tool_ok THEN
               ExtractEnd(p, "err", ToolError("get_manifest"), disk) /\ UNCHANGED xmanifest
           ELSE IF parsed = None THEN
               ExtractEnd(p, "err", <<"failed to deserialize manifest list">>, disk)
               /\ UNCHANGED xmanifest
           ELSE IF ~docker_arch.ok THEN
               ExtractEnd(p, "err", docker_arch.err, disk) /\ UNCHANGED xmanifest
           ELSE IF found.kind = "panic" THEN
               ExtractEnd(p, "panic", <<"called Option::unwrap() on a None value">>, disk)
               /\ UNCHANGED xmanifest
           ELSE IF found.kind = "none" THEN
               ExtractEnd(p, "err", <<"could not find image for architecture">>, disk)
               /\ UNCHANGED xmanifest
           ELSE IF UriRegistry(ximage[p].uri) = None THEN
               ExtractEnd(p, "err", <<"failed to resolve image registry">>, disk)
               /\ UNCHANGED xmanifest
           ELSE /\ xmanifest' = [xmanifest EXCEPT ![p] = found.manifest]
                /\ xpc' = [xpc EXCEPT ![p] = "pull_image"]
                /\ UNCHANGED xoutcome
        /\ xlog' = [xlog EXCEPT ![p] = Append(@, Event(p, "get_manifest", None, None,
                        IF tool_ok THEN Some(registry[ximage[p].uri]) ELSE None))]
    /\ UNCHANGED <<ximage, xarch, xcalls>>
    /\ UNCHANGED <<lockedVars, debugVars, registryVars, resolveVars, diskVars>>

\* OCIArchive::pull_image: the archive of the digest is pulled over the network
\* only if the cache does not hold it
PullImage(p, digest) ==
    IF digest \in disk.cache
    THEN /\ xlog' = [xlog EXCEPT ![p] = Append(@, Event(p, "pull_image", digest, CachePath, None))]
         /\ xpc' = [xpc EXCEPT ![p] = "unpack_layers"]
         /\ UNCHANGED <<disk, xoutcome>>
    ELSE \E net_ok \in BOOLEAN :
         /\ xlog' = [xlog EXCEPT ![p] = @ \o <<Event(p, "pull_image", digest, CachePath, None),
                                                 Event(p, "network_pull", digest, CachePath, None)>>]
         /\ IF net_ok
            THEN /\ disk' = [disk EXCEPT !.cache = @ \cup {digest}]
                 /\ xpc' = [xpc EXCEPT ![p] = "unpack_layers"]
                 /\ UNCHANGED xoutcome
            ELSE ExtractEnd(p, "err", <<"failed to pull image">>, disk) /\ UNCHANGED disk

\* line 287: oci_archive.pull_image(image_tool)
ExtractPullImage(p) ==
    /\ xpc[p] = "pull_image"
    /\ PullImage(p, Unwrap(xmanifest[p]).digest)
    /\ UNCHANGED <<ximage, xarch, xcalls, xmanifest>>
    /\ UNCHANGED <<lockedVars, debugVars, registryVars, resolveVars>>

\* OCIArchive::unpack_layers: nothing is done when the digest file of the target
\* names the digest; otherwise the target is cleaned and the layers unpacked
UnpackLayers(p, digest, path) ==
    IF path \in disk.dirs /\ disk.files[path].marker = Some(digest)
    THEN /\ xlog' = [xlog EXCEPT ![p] = Append(@, Event(p, "unpack_layers", digest, path, None))]
         /\ ExtractEnd(p, "ok", <<>>, disk)
         /\ UNCHANGED disk
    ELSE \E io_ok \in BOOLEAN :
         LET unpacked == [disk EXCEPT !.dirs = @ \cup {path},
                                      !.files[path] = [layers |-> Some(digest), marker |->
                                                        IF io_ok THEN Some(digest) ELSE None]]
         IN
         /\ xlog' = [xlog EXCEPT ![p] = @ \o <<Event(p, "unpack_layers", digest, path, None),
                                                 Event(p, "unpack", digest, path, None)>>]
         /\ disk' = unpacked
         /\ IF io_ok
            THEN ExtractEnd(p, "ok", <<>>, unpacked)
            ELSE ExtractEnd(p, "err", <<"failed to unpack layers">>, unpacked)

\* lines 291-293: oci_archive.unpack_layers(&target_path), then Ok(())
ExtractUnpackLayers(p) ==
    /\ xpc[p] = "unpack_layers"
    /\ UnpackLayers(p, Unwrap(xmanifest[p]).digest, TargetPath(ximage[p], xarch[p]))
    /\ UNCHANGED <<ximage, xarch, xcalls, xmanifest>>
    /\ UNCHANGED <<lockedVars, debugVars, registryVars, resolveVars>>

\* The caller calls extract again with the same arguments (after a panic there is no caller left).
ExtractAgain(p) ==
    /\ xpc[p] = "done"
    /\ xcalls[p] > 0
    /\ xoutcome[p][Len(xoutcome[p])].kind # "panic"
    /\ xcalls' = [xcalls EXCEPT ![p] = @ - 1]
    /\ xpc' = [xpc EXCEPT ![p] = "create_dirs"]
    /\ xmanifest' = [xmanifest EXCEPT ![p] = None]
    /\ UNCHANGED <<ximage, xarch, xoutcome, xlog>>
    /\ UNCHANGED <<lockedVars, debugVars, registryVars, resolveVars, diskVars>>

(***************************************************************************)
(* Initial states and specifications.  Each specification runs one part of *)
(* the program and leaves the variables of the other parts at rest.        *)
(***************************************************************************)
MaxEntries == 2

LockedAtRest ==
    /\ lhs = [name |-> 1, version |-> 1, vendor |-> 1, source |-> 1, digest |-> 1]
    /\ rhs = lhs
    /\ eq_result = None
    /\ cmp_result = None

ResolveAtRest ==
    /\ image \in {img \in ResolveImages : img.uri.registry # None}
    /\ skip_metadata_retrieval = FALSE
    /\ pc = "idle"
    /\ manifest_bytes = None
    /\ manifest_list = <<>>
    /\ digest_bytes = None
    /\ locked_image = None
    /\ in_flight = {}
    /\ consumed = 0
    /\ canonical_metadata = None
    /\ tool_calls = <<>>
    /\ result = None
    /\ previous = None

DebugAtRest ==
    /\ encoded = [v \in Rendered |-> "eX1"]
    /\ debug_result = [v \in Rendered |-> None]
    /\ try_debug_result = [v \in Rendered |-> None]
    /\ try_from_result = [v \in Rendered |-> None]

ExtractAtRest ==
    /\ ximage = [p \in Resolvers |-> [name |-> "core-kit", version |-> "2.0.0",
                                      vendor |-> "bottlerocket", uri |-> None]]
    /\ xarch = [p \in Resolvers |-> "amd64"]
    /\ xpc = [p \in Resolvers |-> "idle"]
    /\ xcalls = [p \in Resolvers |-> 0]
    /\ xmanifest = [p \in Resolvers |-> None]
    /\ xoutcome = [p \in Resolvers |-> <<>>]
    /\ xlog = [p \in Resolvers |-> <<>>]
    /\ disk = [dirs |-> {}, cache |-> {}, files |-> <<>>]

\* Two LockedImage values, not yet compared.
InitLockedImage ==
    /\ lhs \in LockedImages
    /\ rhs \in LockedImages
    /\ eq_result = None
    /\ cmp_result = None
    /\ DebugAtRest
    /\ registry = <<>>
    /\ pushes = 0
    /\ ResolveAtRest
    /\ ExtractAtRest

NextLockedImage == CompareEq \/ CompareCmp

SpecLockedImage == InitLockedImage /\ [][NextLockedImage]_vars

\* ImageResolver::from_image, optionally .skip_metadata_retrieval(), and a
\* call of resolve about to start.
Init ==
    /\ LockedAtRest
    /\ DebugAtRest
    /\ image \in ResolveImages
    /\ skip_metadata_retrieval \in BOOLEAN
    /\ \E bytes \in ResolveBytes : registry = [u \in {image.uri} |-> bytes]
    /\ pushes = 0
    /\ pc = "get_manifest"
    /\ manifest_bytes = None
    /\ manifest_list = <<>>
    /\ digest_bytes = None
    /\ locked_image = None
    /\ in_flight = {}
    /\ consumed = 0
    /\ canonical_metadata = None
    /\ tool_calls = <<>>
    /\ result = None
    /\ previous = None
    /\ ExtractAtRest

Next ==
    \/ ResolveGetManifest
    \/ ResolveCalculateDigest
    \/ ResolveTryNext
    \/ ResolveCanonical
    \/ ResolveValidate
    \/ ResolveDecode
    \/ RegistryPush

Spec == Init /\ [][Next]_vars

(***************************************************************************)
(* Two resolvers, built from project images that may differ in every       *)
(* field, with or without skip_metadata_retrieval, call resolve one after  *)
(* the other against a registry that serves each uri its manifest list.    *)
(***************************************************************************)
DigestImages == {img \in ProjectImages : img.uri.registry # None}

\* The manifest lists the registry serves at first: of one kit, for one or
\* two architectures, or none; or bytes that are no manifest list.
DigestBytes ==
    {[valid |-> TRUE, manifests |-> EntriesOf(ds)] : ds \in SeqsUpTo({"dX1"}, 2)}
        \cup {InvalidBytes}

InitDigest ==
    /\ LockedAtRest
    /\ DebugAtRest
    /\ image \in DigestImages
    /\ skip_metadata_retrieval \in BOOLEAN
    /\ registry \in [{img.uri : img \in DigestImages} -> DigestBytes]
    /\ pushes = 0
    /\ pc = "get_manifest"
    /\ manifest_bytes = None
    /\ manifest_list = <<>>
    /\ digest_bytes = None
    /\ locked_image = None
    /\ in_flight = {}
    /\ consumed = 0
    /\ canonical_metadata = None
    /\ tool_calls = <<>>
    /\ result = None
    /\ previous = None
    /\ ExtractAtRest

NextDigest ==
    \/ ResolveGetManifest
    \/ ResolveCalculateDigest
    \/ ResolveTryNext
    \/ ResolveCanonical
    \/ ResolveValidate
    \/ ResolveDecode
    \/ ResolveAgain
    \/ RegistryPush

SpecDigest == InitDigest /\ [][NextDigest]_vars

(***************************************************************************)
(* Two EncodedKitMetadata values, rendered for debugging and decoded.      *)
(***************************************************************************)
InitDebug ==
    /\ LockedAtRest
    /\ encoded \in [Rendered -> EncodedStrings]
    /\ debug_result = [v \in Rendered |-> None]
    /\ try_debug_result = [v \in Rendered |-> None]
    /\ try_from_result = [v \in Rendered |-> None]
    /\ registry = <<>>
    /\ pushes = 0
    /\ ResolveAtRest
    /\ ExtractAtRest

NextDebug ==
    \E v \in Rendered :
        \/ CallDebugImageMetadata(v)
        \/ CallTryDebugImageMetadata(v)
        \/ CallTryFrom(v)

SpecDebug == InitDebug /\ [][NextDebug]_vars

(***************************************************************************)
(* extract: one resolver calling extract up to MaxCalls times in sequence, *)
(* against every manifest list of at most MaxEntries entries.              *)
(***************************************************************************)
ExtractEntries ==
    [digest : {"dA", "dB"}, platform : {None, Some("Amd64"), Some("Arm64")}]

ExtractBytes ==
    {[valid |-> TRUE, manifests |-> ms] : ms \in SeqsUpTo(ExtractEntries, MaxEntries)}
        \cup {InvalidBytes}

InitExtract ==
    /\ LockedAtRest
    /\ DebugAtRest
    /\ ResolveAtRest
    /\ \E host \in {None, Some("public.ecr.aws")} :
        ximage = [p \in Resolvers |->
                    [name |-> "core-kit", version |-> "2.0.0", vendor |-> "bottlerocket",
                     uri |-> [registry |-> host, repo |-> "core-kit", tag |-> "v2.0.0"]]]
    /\ \E arch \in {"amd64", "arm64", "riscv64"} : xarch = [p \in Resolvers |-> arch]
    /\ \E bytes \in ExtractBytes : registry = [u \in {ximage[1].uri} |-> bytes]
    /\ pushes = 0
    /\ xpc = [p \in Resolvers |-> IF p = 1 THEN "create_dirs" ELSE "idle"]
    /\ xcalls = [p \in Resolvers |-> IF p = 1 THEN MaxCalls - 1 ELSE 0]
    /\ xmanifest = [p \in Resolvers |-> None]
    /\ xoutcome = [p \in Resolvers |-> <<>>]
    /\ xlog = [p \in Resolvers |-> <<>>]
    /\ disk = [dirs |-> {}, cache |-> {},
               files |-> [q \in {TargetPath(ximage[1], xarch[1])} |-> EmptyDir]]

NextExtract ==
    \/ \E p \in Resolvers :
        \/ ExtractCreateDirs(p)
        \/ ExtractGetManifest(p)
        \/ ExtractPullImage(p)
        \/ ExtractUnpackLayers(p)
        \/ ExtractAgain(p)
    \/ RegistryPush

SpecExtract == InitExtract /\ [][NextExtract]_vars

(***************************************************************************)
(* Two resolvers, bound to two images, each calling extract once with the  *)
(* same destination path and architecture, their steps interleaved.        *)
(***************************************************************************)
ConcurrentImages ==
    {[name |-> n, version |-> v, vendor |-> w,
      uri |-> [registry |-> Some(h), repo |-> n, tag |-> v]] :
        n \in {"core-kit", "extra-kit"}, v \in {"1.0.0", "2.0.0"},
        w \in {"bottlerocket", "acme"}, h \in {"public.ecr.aws", "mirror.example"}}

ConcurrentBytes ==
    {[valid |-> TRUE, manifests |-> <<[digest |-> d, platform |-> Some("Amd64")]>>] :
        d \in {"dA", "dB"}}

InitConcurrent ==
    /\ LockedAtRest
    /\ DebugAtRest
    /\ ResolveAtRest
    /\ ximage \in [Resolvers -> ConcurrentImages]
    /\ ximage[1] = [name |-> "core-kit", version |-> "1.0.0", vendor |-> "bottlerocket",
                    uri |-> [registry |-> Some("public.ecr.aws"), repo |-> "core-kit",
                             tag |-> "1.0.0"]]
    /\ xarch = [p \in Resolvers |-> "amd64"]
    /\ registry \in [{ximage[p].uri : p \in Resolvers} -> ConcurrentBytes]
    /\ pushes = 0
    /\ xpc = [p \in Resolvers |-> "create_dirs"]
    /\ xcalls = [p \in Resolvers |-> 0]
    /\ xmanifest = [p \in Resolvers |-> None]
    /\ xoutcome = [p \in Resolvers |-> <<>>]
    /\ xlog = [p \in Resolvers |-> <<>>]
    /\ disk = [dirs |-> {}, cache |-> {},
               files |-> [q \in {TargetPath(ximage[p], xarch[p]) : p \in Resolvers}
                            |-> EmptyDir]]

NextConcurrent ==
    \E p \in Resolvers :
        \/ ExtractCreateDirs(p)
        \/ ExtractGetManifest(p)
        \/ ExtractPullImage(p)
        \/ ExtractUnpackLayers(p)

SpecConcurrent == InitConcurrent /\ [][NextConcurrent]_vars

(***************************************************************************)
(* Properties of LockedImage, under SpecLockedImage.                       *)
(***************************************************************************)

\* C1: for any two LockedImage values A and B, A == B holds if and only if
\* A.source == B.source and A.digest == B.digest; name, version and vendor
\* never influence equality.
C1_EqualityIsSourceAndDigest ==
    eq_result # None =>
        (Unwrap(eq_result) <=> (lhs.source = rhs.source /\ lhs.digest = rhs.digest))

\* Two values found equal although name, version and vendor all differ.
C1_Witness ==
    /\ eq_result = Some(TRUE)
    /\ lhs.name # rhs.name
    /\ lhs.version # rhs.version
    /\ lhs.vendor # rhs.vendor

\* C2: the ordering of LockedImage values is defined solely by (source,
\* digest): comparing A with B gives Equal if and only if A == B, and the
\* result of the comparison does not change when name, version or vendor of
\* either value is changed.
C2_OrderingIsSourceAndDigest ==
    (eq_result # None /\ cmp_result # None) =>
        /\ (Unwrap(cmp_result) = "Equal") <=> Unwrap(eq_result)
        /\ \A a, b \in LockedImages :
            (/\ a.source = lhs.source /\ a.digest = lhs.digest
             /\ b.source = rhs.source /\ b.digest = rhs.digest)
                => LockedImageCmp(a, b) = Unwrap(cmp_result)

(***************************************************************************)
(* Properties of resolve, under Spec.                                      *)
(***************************************************************************)
MismatchError == <<"Metadata does not match between images in manifest list">>

NotAKitError == <<"no metadata stored on image, this image appears to not be a kit">>

\* The messages that open an integrity-class error chain: a decode failure,
\* a mismatch across architectures.
IntegrityMessages ==
    {"Failed to decode and parse kit metadata", "failed to decode kit metadata as base64",
     "failed to parse kit metadata json",
     "Metadata does not match between images in manifest list"}

Finished == pc = "done"

AllToolCallsOk == \A i \in DOMAIN tool_calls : tool_calls[i].ok

ConfigFetches == SelectSeq(tool_calls, LAMBDA c : c.op = "get_config")

\* The encoded metadata the registry holds for a manifest entry, if any.
KitLabelOf(manifest) ==
    IF KitLabel \in DOMAIN ConfigLabels(manifest.digest)
    THEN Some(ConfigLabels(manifest.digest)[KitLabel]) ELSE None

\* The ImageMetadata a manifest entry's metadata decodes to, if it does.
DecodedOf(manifest) ==
    IF KitLabelOf(manifest) = None THEN None
    ELSE ImageMetadataTryFrom(Unwrap(KitLabelOf(manifest))).val

\* resolve has failed and returned neither a LockedImage nor metadata.
FailedWithNothing ==
    /\ ~Unwrap(result).ok
    /\ Unwrap(result).locked = None
    /\ Unwrap(result).metadata = None

\* A later entry's decoded metadata differs from the first entry's.
LaterEntryDecodesDifferently ==
    \E i \in 2..Len(manifest_list) :
        /\ DecodedOf(manifest_list[1]) # None
        /\ DecodedOf(manifest_list[i]) # None
        /\ DecodedOf(manifest_list[i]) # DecodedOf(manifest_list[1])

\* The image tool answers every call, the uri names its registry, and the
\* manifest list has entries.
ResolveUnhindered ==
    /\ AllToolCallsOk
    /\ image.uri.registry # None
    /\ manifest_list # <<>>

C5_SkipNeverFetchesConfig ==
    skip_metadata_retrieval =>
        /\ ConfigFetches = <<>>
        /\ in_flight = {}
        /\ (Finished /\ Unwrap(result).ok) => Unwrap(result).metadata = None

\* A skipping resolver has succeeded on a manifest list that has entries.
C5_Witness ==
    /\ skip_metadata_retrieval
    /\ Finished
    /\ Unwrap(result).ok
    /\ Unwrap(result).locked # None
    /\ Len(manifest_list) >= 2

\* C6: resolve is all-or-nothing: nothing is returned before the call ends;
\* with metadata retrieval enabled a success comes only after the metadata
\* of every manifest entry has been fetched, in order, and found to match
\* the canonical one, and it carries a LockedImage and Some(metadata); every
\* other outcome is an error with no LockedImage and no metadata.
C6_AllOrNothing ==
    /\ ~Finished => result = None
    /\ Finished =>
        /\ result # None
        /\ ~Unwrap(result).ok => (FailedWithNothing /\ Unwrap(result).error # <<>>)
        /\ (Unwrap(result).ok /\ ~skip_metadata_retrieval) =>
            /\ Unwrap(result).locked # None
            /\ Unwrap(result).metadata # None
            /\ Len(ConfigFetches) = Len(manifest_list)
            /\ \A i \in DOMAIN manifest_list :
                /\ ConfigFetches[i].ok
                /\ ConfigFetches[i].arg.digest = manifest_list[i].digest
                /\ KitLabelOf(manifest_list[i]) = canonical_metadata

\* A success with metadata on a list of several entries.
C6_Witness ==
    /\ Finished
    /\ ~skip_metadata_retrieval
    /\ Unwrap(result).ok
    /\ Unwrap(result).metadata # None
    /\ Len(manifest_list) >= 2

\* C7: when the image configuration fetched for a manifest entry has no
\* 'dev.bottlerocket.kit.v1' label, the fetch is the last thing resolve does:
\* it fails with the 'this image appears to not be a kit' error, which is no
\* integrity-class error (decode failure, mismatch), and never succeeds.
C7_MissingLabelIsNotFound ==
    \A i \in DOMAIN tool_calls :
        (/\ tool_calls[i].op = "get_config"
         /\ tool_calls[i].ok
         /\ KitLabel \notin DOMAIN ConfigLabels(tool_calls[i].arg.digest))
            => /\ i = Len(tool_calls)
               /\ Finished
               /\ FailedWithNothing
               /\ Unwrap(result).error = NotAKitError
               /\ Head(Unwrap(result).error) \notin IntegrityMessages

\* A later entry without the label, after a first entry that had it.
C7_Witness ==
    /\ Finished
    /\ Unwrap(result).error = NotAKitError
    /\ consumed >= 1
    /\ canonical_metadata # None

(***************************************************************************)
(* Properties of extract, under SpecExtract and SpecConcurrent.            *)
(***************************************************************************)
NoImageError == <<"could not find image for architecture">>

\* The messages of failures of the environment: the image tool, the disk,
\* the network.
TransientMessages ==
    {"image tool error", "failed to create directory", "failed to pull image",
     "failed to unpack layers"}

\* The events of call c of resolver p with one of the operations ops.
EventsOf(p, c, ops) == SelectSeq(xlog[p], LAMBDA e : e.call = c /\ e.op \in ops)

\* Call c of resolver p has fetched a manifest list that deserializes, and
\* the requested architecture is one DockerArchitecture knows.
ListFetched(p, c) ==
    /\ EventsOf(p, c, {"get_manifest"}) # <<>>
    /\ EventsOf(p, c, {"get_manifest"})[1].bytes # None
    /\ Unwrap(EventsOf(p, c, {"get_manifest"})[1].bytes).valid
    /\ DockerArchitectureTryFrom(xarch[p]).ok

FetchedList(p, c) == Unwrap(EventsOf(p, c, {"get_manifest"})[1].bytes).manifests

\* The positions of the entries whose platform architecture is the requested one.
Matching(p, c) ==
    {i \in DOMAIN FetchedList(p, c) :
        FetchedList(p, c)[i].platform = DockerArchitectureTryFrom(xarch[p]).val}

FirstMatching(p, c) ==
    CHOOSE i \in Matching(p, c) : \A j \in Matching(p, c) : i <= j

\* C8 as stated: when no entry of the fetched manifest list has the requested
\* architecture, extract fails with the 'could not find image for
\* architecture' error and neither pull_image nor unpack_layers is invoked;
\* when entries match, the first of them in list order is the one whose
\* digest is pulled and unpacked.
C8_ArchitectureSelection ==
    \A p \in Resolvers : \A c \in 1..CallNo(p) :
        ListFetched(p, c) =>
            /\ Matching(p, c) = {} =>
                /\ c <= Len(xoutcome[p])
                /\ xoutcome[p][c].kind = "err"
                /\ xoutcome[p][c].error = NoImageError
                /\ EventsOf(p, c, {"pull_image", "unpack_layers"}) = <<>>
            /\ Matching(p, c) # {} =>
                /\ c <= Len(xoutcome[p]) => xoutcome[p][c].kind # "panic"
                /\ \A k \in DOMAIN EventsOf(p, c, {"pull_image", "unpack_layers"}) :
                    EventsOf(p, c, {"pull_image", "unpack_layers"})[k].digest
                        = FetchedList(p, c)[FirstMatching(p, c)].digest

\* The first call of p did not end in a failure of the environment.
FirstCallUnhindered(p) ==
    \/ xoutcome[p][1].kind = "ok"
    \/ xoutcome[p][1].kind = "err" /\ Head(xoutcome[p][1].error) \notin TransientMessages

\* C9: extraction idempotence: two calls of extract in sequence with the same
\* arguments, the registry unchanged and the first call not cut short by a
\* failure of the environment, perform at most one network pull and at most
\* one unpack in total, and the second call leaves in the target directory
\* what the first call left.
C9_ExtractionIdempotence ==
    \A p \in Resolvers :
        (Len(xoutcome[p]) >= 2 /\ pushes = 0 /\ FirstCallUnhindered(p)) =>
            /\ Len(EventsOf(p, 1, {"network_pull"})) + Len(EventsOf(p, 2, {"network_pull"})) <= 1
            /\ Len(EventsOf(p, 1, {"unpack"})) + Len(EventsOf(p, 2, {"unpack"})) <= 1
            /\ xoutcome[p][2].disk.files[TargetPath(ximage[p], xarch[p])]
                = xoutcome[p][1].disk.files[TargetPath(ximage[p], xarch[p])]

\* Two calls have returned Ok: the first pulled and unpacked, the second
\* invoked both archive operations and neither pulled nor unpacked.
C9_Witness ==
    /\ Len(xoutcome[1]) = 2
    /\ pushes = 0
    /\ xoutcome[1][1].kind = "ok"
    /\ xoutcome[1][2].kind = "ok"
    /\ Len(EventsOf(1, 1, {"network_pull", "unpack"})) = 2
    /\ Len(EventsOf(1, 2, {"pull_image", "unpack_layers"})) = 2
    /\ EventsOf(1, 2, {"network_pull", "unpack"}) = <<>>
    /\ xoutcome[1][2].disk.files[TargetPath(ximage[1], xarch[1])].marker # None

\* Resolver p has unpacked layers into a target directory.
HasWritten(p) == EventsOf(p, 1, {"unpack"}) # <<>>

WrittenPath(p) == EventsOf(p, 1, {"unpack"})[1].path

WrittenDigest(p) == EventsOf(p, 1, {"unpack"})[1].digest

\* C10 as stated: two resolvers bound to images that differ in any of vendor,
\* name, version or resolved manifest digest, extracting to the same
\* destination path for the same architecture, write to different target
\* directories.
C10_DifferentImagesDifferentTargets ==
    \A p, q \in Resolvers :
        (/\ p # q
         /\ HasWritten(p)
         /\ HasWritten(q)
         /\ xarch[p] = xarch[q]
         /\ \/ ximage[p].vendor # ximage[q].vendor
            \/ ximage[p].name # ximage[q].name
            \/ ximage[p].version # ximage[q].version
            \/ WrittenDigest(p) # WrittenDigest(q))
            => WrittenPath(p) # WrittenPath(q)

\* C10 (amended): two resolvers extracting to the same destination path for
\* the same architecture write to different target directories exactly when
\* their images differ in vendor or name; images that differ only in version
\* or resolved manifest digest share the target directory.
C10_TargetsByVendorAndName ==
    \A p, q \in Resolvers :
        (p # q /\ HasWritten(p) /\ HasWritten(q) /\ xarch[p] = xarch[q]) =>
            ((WrittenPath(p) # WrittenPath(q))
                <=> (ximage[p].vendor # ximage[q].vendor \/ ximage[p].name # ximage[q].name))

\* Two resolvers whose images differ in vendor alone have both unpacked, into
\* different directories.
C10_Witness ==
    /\ HasWritten(1)
    /\ HasWritten(2)
    /\ ximage[1].vendor # ximage[2].vendor
    /\ ximage[1].name = ximage[2].name
    /\ ximage[1].version = ximage[2].version
    /\ WrittenDigest(1) = WrittenDigest(2)
    /\ WrittenPath(1) # WrittenPath(2)

(***************************************************************************)
(* Properties of two resolve calls, under SpecDigest.                      *)
(***************************************************************************)

\* Both calls got the same manifest-list bytes from the image tool when they
\* calculated their digest.
SameDigestBytes ==
    /\ previous # None
    /\ Unwrap(previous).digest_bytes # None
    /\ digest_bytes # None
    /\ Unwrap(previous).digest_bytes = digest_bytes

\* C11: digest determinism: the digest stored in the LockedImage is a pure
\* function of the manifest-list bytes the image tool returned: two resolve
\* calls that got the same bytes store the same digest, whatever the name,
\* version, vendor, source and skip flag of their resolvers, and the
\* LockedImage a call returns carries the digest it stored.
C11_DigestDeterminism ==
    /\ SameDigestBytes =>
        Unwrap(locked_image).digest = Unwrap(Unwrap(previous).locked_image).digest
    /\ (Finished /\ Unwrap(result).ok) =>
        Unwrap(Unwrap(result).locked).digest = Unwrap(locked_image).digest

\* Two successful calls on the same bytes, by resolvers that differ in name,
\* version, vendor, source and skip flag.
C11_Witness ==
    /\ SameDigestBytes
    /\ Finished
    /\ Unwrap(result).ok
    /\ Unwrap(previous).result.ok
    /\ Unwrap(previous).image.name # image.name
    /\ Unwrap(previous).image.version # image.version
    /\ Unwrap(previous).image.vendor # image.vendor
    /\ Unwrap(previous).image.source # image.source
    /\ Unwrap(previous).skip_metadata_retrieval # skip_metadata_retrieval
    /\ Unwrap(Unwrap(result).locked).digest
        = Unwrap(Unwrap(previous).result.locked).digest

(***************************************************************************)
(* Properties of the Debug rendering, under SpecDebug.                     *)
(***************************************************************************)
DecodedForm == "<ImageMetadata(decoded) ["

EncodedForm == "<ImageMetadata(encoded) ["

\* C12: debug rendering is total and agrees with strict decoding: for every
\* encoded string try_debug_image_metadata returns a string; the string is
\* the decoded form exactly when debug_image_metadata returns Some, which it
\* does exactly when ImageMetadata::try_from succeeds on the string; when it
\* returns None the rendering is the encoded form around the raw string, its
\* line breaks escaped.
C12_DebugAgreesWithDecoding ==
    \A v \in Rendered :
        /\ try_debug_result[v] # None =>
            Unwrap(try_debug_result[v])[1] \in {DecodedForm, EncodedForm}
        /\ (debug_result[v] # None /\ try_from_result[v] # None) =>
            /\ (Unwrap(debug_result[v]) # None) <=> Unwrap(try_from_result[v]).ok
            /\ Unwrap(try_from_result[v]).ok =>
                Unwrap(Unwrap(debug_result[v]))[2][2] = Unwrap(Unwrap(try_from_result[v]).val)
        /\ (debug_result[v] # None /\ try_debug_result[v] # None) =>
            IF Unwrap(debug_result[v]) # None
            THEN Unwrap(try_debug_result[v]) = Unwrap(Unwrap(debug_result[v]))
            ELSE /\ Unwrap(try_debug_result[v])[1] = EncodedForm
                 /\ Unwrap(try_debug_result[v])[2]
                        = IF encoded[v] = "eNot\nBase64" THEN "eNot\\nBase64" ELSE encoded[v]

\* The junk string of the unit test and a string that is base64 but no
\* ImageMetadata have both been rendered in the encoded form, and a string
\* that decodes in the decoded form.
C12_Witness ==
    /\ encoded["kit_metadata"] = "abcdefghijklmnophello"
    /\ debug_result["kit_metadata"] = Some(None)
    /\ try_from_result["kit_metadata"] # None
    /\ ~Unwrap(try_from_result["kit_metadata"]).ok
    /\ try_debug_result["kit_metadata"] = Some(<<EncodedForm, "abcdefghijklmnophello", "]>">>)
    /\ encoded["canonical_metadata"] = "eNotJson"
    /\ debug_result["canonical_metadata"] = Some(None)
    /\ try_from_result["canonical_metadata"] # None
    /\ try_debug_result["canonical_metadata"] # None

(***************************************************************************)
(* Properties of the order of steps within resolve, under Spec.            *)
(***************************************************************************)

\* C13: within one resolve call config fetches are issued strictly in
\* manifest-list order and never overlap: at most one is in flight; the one
\* in flight is for the entry after those already fetched, all of which
\* completed successfully; the k-th fetch made is for the k-th entry, so no
\* entry is fetched twice; and the canonical metadata is that of the first
\* entry.
C13_SequentialFetches ==
    /\ Cardinality(in_flight) <= 1
    /\ in_flight # {} =>
        /\ in_flight = {Len(ConfigFetches) + 1}
        /\ \A k \in DOMAIN ConfigFetches : ConfigFetches[k].ok
        /\ ~Finished
    /\ Len(ConfigFetches) <= Len(manifest_list)
    /\ \A k \in DOMAIN ConfigFetches :
        /\ ConfigFetches[k].arg.digest = manifest_list[k].digest
        /\ k < Len(ConfigFetches) => ConfigFetches[k].ok
    /\ canonical_metadata # None =>
        /\ ConfigFetches # <<>>
        /\ ConfigFetches[1].ok
        /\ canonical_metadata = KitLabelOf(manifest_list[1])

\* The fetch for the third entry is in flight after the fetches for the first
\* two have completed.
C13_Witness ==
    /\ Len(manifest_list) = 3
    /\ in_flight = {3}
    /\ Len(ConfigFetches) = 2
    /\ manifest_list[3].digest # manifest_list[1].digest
    /\ canonical_metadata # None

DecodeError == "Failed to decode and parse kit metadata"

\* The canonical metadata has been fetched and does not decode.
CanonicalUndecodable ==
    /\ canonical_metadata # None
    /\ DecodedOf(manifest_list[1]) = None

\* Every entry after the first carries the encoded string of the first.
LaterEntriesMatch ==
    \A i \in DOMAIN manifest_list : KitLabelOf(manifest_list[i]) = canonical_metadata

\* C14 as stated: the canonical metadata is decoded as soon as it has been
\* fetched: if it fails to decode, no config fetch is issued for a later
\* manifest entry, and resolve fails with the decode error whatever the later
\* entries contain.
C14_DecodedImmediately ==
    CanonicalUndecodable =>
        /\ Len(ConfigFetches) <= 1
        /\ in_flight = {}
        /\ Finished => Head(Unwrap(result).error) = DecodeError

\* C14 (amended): the canonical metadata is decoded only after the metadata
\* of every manifest entry has been fetched and found equal to it: if it
\* fails to decode, resolve fails, with no fallback to a later entry; the
\* failure is the decode error when every later entry was fetched and
\* matched, and the fetch failure or mismatch of a later entry otherwise.
C14_DecodedAfterValidation ==
    (CanonicalUndecodable /\ Finished) =>
        /\ FailedWithNothing
        /\ Head(Unwrap(result).error) = DecodeError =>
            /\ Len(ConfigFetches) = Len(manifest_list)
            /\ AllToolCallsOk
            /\ LaterEntriesMatch
        /\ (AllToolCallsOk /\ LaterEntriesMatch) =>
            Head(Unwrap(result).error) = DecodeError

\* The decode error, reported after three entries with the same undecodable
\* metadata have been fetched.
C14_Witness ==
    /\ CanonicalUndecodable
    /\ Finished
    /\ Head(Unwrap(result).error) = DecodeError
    /\ Len(manifest_list) = 3
    /\ Len(ConfigFetches) = 3

\* C15: resolve short-circuits and never retries: a call of the image tool
\* that fails, a fetched configuration without the kit label and a fetched
\* entry whose metadata differs from the canonical one are each the last
\* image-tool call of the resolve call: nothing is in flight after it, no
\* call follows it, and resolve has returned that failure.
C15_ShortCircuitNoRetry ==
    /\ \A i \in DOMAIN tool_calls :
        ~tool_calls[i].ok =>
            /\ i = Len(tool_calls)
            /\ in_flight = {}
            /\ Finished
            /\ FailedWithNothing
            /\ Unwrap(result).error = ToolError(tool_calls[i].op)
    /\ \A k \in DOMAIN ConfigFetches :
        (/\ ConfigFetches[k].ok
         /\ \/ KitLabelOf(manifest_list[k]) = None
            \/ KitLabelOf(manifest_list[k]) # canonical_metadata) =>
            /\ k = Len(ConfigFetches)
            /\ ConfigFetches[k] = tool_calls[Len(tool_calls)]
            /\ in_flight = {}
            /\ Finished
            /\ FailedWithNothing
            /\ Unwrap(result).error =
                IF KitLabelOf(manifest_list[k]) = None THEN NotAKitError ELSE MismatchError

\* The fetch for the second of three entries failed in transport: resolve
\* has returned that failure and the third entry was never fetched.
C15_Witness ==
    /\ Finished
    /\ Len(manifest_list) = 3
    /\ Len(ConfigFetches) = 2
    /\ ~ConfigFetches[2].ok
    /\ Unwrap(result).error = ToolError("get_config")

(***************************************************************************)
(* Properties of the order of steps within extract, under SpecExtract.     *)
(***************************************************************************)
ExtractOps == {"get_manifest", "pull_image", "network_pull", "unpack_layers", "unpack"}

\* The operations of call c of resolver p, in the order they were logged.
OpsOf(p, c) ==
    LET events == EventsOf(p, c, ExtractOps) IN [k \in DOMAIN events |-> events[k].op]

\* The orders of a whole call: the network pull and the unpack are skipped
\* when the archive is cached, the target stamped.
FullOrders ==
    {<<"get_manifest", "pull_image", "network_pull", "unpack_layers", "unpack">>,
     <<"get_manifest", "pull_image", "network_pull", "unpack_layers">>,
     <<"get_manifest", "pull_image", "unpack_layers", "unpack">>,
     <<"get_manifest", "pull_image", "unpack_layers">>}

IsPrefix(s, t) == Len(s) <= Len(t) /\ \A k \in DOMAIN s : s[k] = t[k]

\* The errors of the steps up to the selection of the manifest entry and the
\* reading of the registry.
SelectionErrors ==
    {ToolError("get_manifest"), <<"failed to deserialize manifest list">>,
     <<"invalid architecture">>, <<"called Option::unwrap() on a None value">>,
     NoImageError, <<"failed to resolve image registry">>}

\* C16: extract follows the order ManifestFetched, ArchitectureSelected,
\* ArchivePulled, ArchiveUnpacked, Done: pull_image is invoked only after a
\* manifest entry for the requested architecture has been selected from the
\* fetched list and the registry is known; unpack_layers only after
\* pull_image has returned successfully, the archive in the cache; Ok is
\* returned only after unpack_layers has returned successfully; and a call
\* that fails at a step has run no later step.
C16_ExtractOrder ==
    \A p \in Resolvers : \A c \in 1..CallNo(p) :
        LET events == EventsOf(p, c, ExtractOps)
            ops == OpsOf(p, c)
            fetches == SelectSeq(events, LAMBDA e : e.op = "get_manifest")
            pulls == SelectSeq(events, LAMBDA e : e.op = "pull_image")
            unpacks == SelectSeq(events, LAMBDA e : e.op = "unpack_layers")
            list == Unwrap(fetches[1].bytes).manifests
        IN
        /\ \E full \in FullOrders : IsPrefix(ops, full)
        /\ pulls # <<>> =>
            /\ fetches[1].bytes # None
            /\ Unwrap(fetches[1].bytes).valid
            /\ DockerArchitectureTryFrom(xarch[p]).ok
            /\ \E i \in DOMAIN list :
                /\ list[i].platform = DockerArchitectureTryFrom(xarch[p]).val
                /\ list[i].digest = pulls[1].digest
            /\ ximage[p].uri.registry # None
        /\ unpacks # <<>> =>
            /\ unpacks[1].digest = pulls[1].digest
            /\ unpacks[1].digest \in disk.cache
        /\ c <= Len(xoutcome[p]) =>
            /\ xoutcome[p][c].kind = "ok" =>
                /\ unpacks # <<>>
                /\ xoutcome[p][c].disk.files[TargetPath(ximage[p], xarch[p])].marker
                    = Some(unpacks[1].digest)
            /\ xoutcome[p][c].error = <<"failed to create directory">> => ops = <<>>
            /\ xoutcome[p][c].error \in SelectionErrors => ops = <<"get_manifest">>
            /\ xoutcome[p][c].error = <<"failed to pull image">> =>
                /\ unpacks = <<>>
                /\ pulls[1].digest \notin xoutcome[p][c].disk.cache
            /\ xoutcome[p][c].kind # "ok" =>
                xoutcome[p][c].error \in
                    SelectionErrors \cup {<<"failed to create directory">>,
                                          <<"failed to pull image">>,
                                          <<"failed to unpack layers">>}

\* A call that went through every step and returned Ok, and a later call
\* that failed when its manifest list had no entry for the architecture.
C16_Witness ==
    /\ Len(xoutcome[1]) = 2
    /\ xoutcome[1][1].kind = "ok"
    /\ OpsOf(1, 1) = <<"get_manifest", "pull_image", "network_pull", "unpack_layers", "unpack">>
    /\ xoutcome[1][2].error = NoImageError
    /\ OpsOf(1, 2) = <<"get_manifest">>

(***************************************************************************)
(* Properties of resolve at the edges of its input, under Spec.            *)
(***************************************************************************)
NoRegistryError == <<"no registry found for image">>

\* C17: when the registry portion of the project image uri is absent,
\* resolve fails whether or not metadata retrieval is skipped: it calculates
\* no digest, builds and returns no LockedImage and issues no config fetch;
\* when the manifest list was fetched and deserialized the failure is the
\* 'no registry found for image' error.
C17_NoRegistryFails ==
    image.uri.registry = None =>
        /\ digest_bytes = None
        /\ locked_image = None
        /\ ConfigFetches = <<>>
        /\ in_flight = {}
        /\ Len(tool_calls) <= 1
        /\ Finished =>
            /\ FailedWithNothing
            /\ (AllToolCallsOk /\ Unwrap(manifest_bytes).valid) =>
                Unwrap(result).error = NoRegistryError

\* A resolver that skips metadata retrieval has failed on a uri without
\* registry, its manifest list fetched and holding entries.
C17_Witness ==
    /\ image.uri.registry = None
    /\ skip_metadata_retrieval
    /\ Finished
    /\ Unwrap(result).error = NoRegistryError
    /\ Len(manifest_list) >= 1

\* C18: in every successful resolve the digest stored in the LockedImage is
\* the digest of the manifest-list bytes whose entries were parsed and
\* validated in that call, also when the registry content behind the uri
\* changes while the call is in progress.
C18_DigestOfValidatedList ==
    (Finished /\ Unwrap(result).ok) =>
        /\ ParseManifestList(Unwrap(manifest_bytes)) = Some(manifest_list)
        /\ Unwrap(Unwrap(result).locked).digest = Sha256Base64(Unwrap(manifest_bytes))

\* The same, of the calls during which nothing was pushed to the registry.
DigestOfValidatedListUnlessPushed == pushes = 0 => C18_DigestOfValidatedList

(***************************************************************************)
(* Termination of extract, under SpecExtract.                              *)
(***************************************************************************)

\* C19: extract never terminates abnormally: whatever manifest list the
\* image tool returns, lists with entries without platform descriptor
\* included, each call ends with Ok or with an error value, never with a
\* panic, and an entry without platform descriptor counts as not matching
\* the requested architecture: a list none of whose entries matches gives
\* the 'could not find image for architecture' error.
C19_ExtractNeverPanics ==
    \A p \in Resolvers : \A c \in DOMAIN xoutcome[p] :
        /\ xoutcome[p][c].kind \in {"ok", "err"}
        /\ (ListFetched(p, c) /\ Matching(p, c) = {}) =>
            xoutcome[p][c].error = NoImageError

\* A call panics only on a fetched list that has an entry without platform
\* descriptor at or before its first entry of the requested architecture.
PanicOnlyWithoutPlatform ==
    \A p \in Resolvers : \A c \in DOMAIN xoutcome[p] :
        xoutcome[p][c].kind = "panic" =>
            /\ ListFetched(p, c)
            /\ \E i \in DOMAIN FetchedList(p, c) :
                /\ FetchedList(p, c)[i].platform = None
                /\ \A j \in Matching(p, c) : i < j

(***************************************************************************)
(* resolve on a manifest list without entries, under Spec.                 *)
(***************************************************************************)
NoMetadataError == <<"could not find metadata for kit">>

\* get_manifest has returned a manifest list that deserializes and has no
\* entries.
EmptyListFetched ==
    /\ manifest_bytes # None
    /\ Unwrap(manifest_bytes).valid
    /\ Unwrap(manifest_bytes).manifests = <<>>

\* C20: when the fetched manifest list has no entries, resolve issues no
\* config fetch and never returns Some(metadata); the image tool answering
\* and the uri naming its registry, resolve with metadata retrieval enabled
\* fails with the 'could not find metadata for kit' error and returns
\* nothing, while resolve with metadata retrieval skipped succeeds with a
\* LockedImage and None.
C20_EmptyManifestList ==
    EmptyListFetched =>
        /\ ConfigFetches = <<>>
        /\ in_flight = {}
        /\ Finished =>
            /\ Unwrap(result).metadata = None
            /\ (AllToolCallsOk /\ image.uri.registry # None) =>
                IF skip_metadata_retrieval
                THEN /\ Unwrap(result).ok
                     /\ Unwrap(result).locked # None
                ELSE /\ FailedWithNothing
                     /\ Unwrap(result).error = NoMetadataError

\* resolve with metadata retrieval enabled has failed on a list without
\* entries, after both fetches of the manifest list succeeded.
C20_Witness ==
    /\ EmptyListFetched
    /\ ~skip_metadata_retrieval
    /\ Finished
    /\ Len(tool_calls) = 2
    /\ AllToolCallsOk
    /\ Unwrap(result).error = NoMetadataError

====
